---- MODULE Spec2Model ----
(***************************************************************************)
(* Model of the intent-routing and execution pipeline of Finam-AI-Chat:    *)
(* execute_graph (orchestration/graph.py), ToolRouter (orchestration/      *)
(* router.py), SimpleTTLCache (core/cache.py), TokenBucket                 *)
(* (core/rate_limit.py), the idempotency store (core/security.py), the     *)
(* safety policy (core/policy.py), the audit log (core/audit.py) and the   *)
(* HTTP client (adapters/finam_client.py).                                 *)
(*                                                                         *)
(* Time is fixed-point: one tick is 1/TicksPerSec seconds.  Token counts   *)
(* are fixed-point too: one token is TicksPerSec units, so that a refill   *)
(* of elapsed * rate_per_sec stays an integer.                             *)
(***************************************************************************)
EXTENDS Integers, Sequences, FiniteSets, TLC

VARIABLES now, bucket, cache_store, idempotency_store, audit_buf,
          policy, serial, accepted, cached_at, last, calls, advances, threads

vars == <<now, bucket, cache_store, idempotency_store, audit_buf,
          policy, serial, accepted, cached_at, last, calls, advances, threads>>

(* ------------------------------ bounds --------------------------------- *)
TicksPerSec == 10
MaxCalls == 2
MaxConfirmCalls == 3
MaxTime == 601
MaxRouterCalls == 2
MaxRouterAdvances == 2
AuditMaxLen == 2
MaxBurstCalls == 12
MaxBurstIdles == 2
MaxBucketCalls == 3
MaxClockSteps == 3
MaxRetryCalls == 2
MaxPolicyCalls == 2
MaxPlanCalls == 2
MaxRegistryCalls == 2
MaxBackendCalls == 2
MaxThreads == 2
MaxRaceTicks == 1
MaxAuditCalls == 4

(* -------------------------- program constants -------------------------- *)
RATE_PER_SEC == 5
BURST == 10
TTL_VOLATILE == 30
TTL_DEFAULT == 300
IDEMPOTENCY_TTL_SECONDS == 60
MAX_ORDER_QUANTITY == 10000
NoStatusCode == 0

RetryableCodes == {429, 500, 502, 503, 504}
(* variant: a fifth delay, and with it a fifth attempt *)
Delays_five == <<1, 3, 7, 15, 31>>

(* the sleeps of _with_backoff, in ticks *)
Delays == <<1, 3, 7, 15>>

Min(a, b) == IF a < b THEN a ELSE b
Max(a, b) == IF a > b THEN a ELSE b

(* ------------------------------- paths --------------------------------- *)
(* A path is a sequence of segments.  A segment is a record: txt is the    *)
(* text before an "@", mic the text after it ("" when there is no "@"),    *)
(* ph tells a {name} placeholder whose name is txt.                        *)
Lit(s) == [txt |-> s, mic |-> "", ph |-> FALSE, opt |-> FALSE]
Sym(t, m) == [txt |-> t, mic |-> m, ph |-> FALSE, opt |-> FALSE]
Ph(n) == [txt |-> n, mic |-> "", ph |-> TRUE, opt |-> FALSE]
(* the optional form {name?} *)
PhOpt(n) == [txt |-> n, mic |-> "", ph |-> TRUE, opt |-> TRUE]

P_ORDERS_T == <<Lit("v1"), Lit("accounts"), Ph("account_id"), Lit("orders")>>
P_ORDERS == <<Lit("v1"), Lit("accounts"), Lit("A1"), Lit("orders")>>
P_ORDER1 == <<Lit("v1"), Lit("accounts"), Lit("A1"), Lit("orders"), Lit("ORD1")>>
P_QUOTE_BARE == <<Lit("v1"), Lit("instruments"), Lit("SBER"), Lit("quotes"), Lit("latest")>>
P_QUOTE == <<Lit("v1"), Lit("instruments"), Sym("SBER", "MISX"), Lit("quotes"), Lit("latest")>>
P_BOOK_X == <<Lit("v1"), Lit("instruments"), Sym("AAPL", "XNYS"), Lit("orderbook")>>
P_ACCOUNT == <<Lit("v1"), Lit("accounts"), Lit("A1")>>
NoPath == << >>

Upper(m) ==
  CASE m = "post" -> "POST"
    [] m = "get" -> "GET"
    [] m = "delete" -> "DELETE"
    [] OTHER -> m

EndsWithOrders(path) == Len(path) > 0 /\ path[Len(path)] = Lit("orders")

ContainsSeg(path, s) == \E i \in 1..Len(path) : path[i].txt = s /\ ~path[i].ph

IsVolatile(path) == ContainsSeg(path, "orderbook") \/ ContainsSeg(path, "quotes")

(* ---------------------------- token bucket ----------------------------- *)
TokenUnit == TicksPerSec

NewBucket(t) == [tokens |-> BURST * TokenUnit, last_refill |-> t]

Refill(b, t) ==
  LET elapsed == t - b.last_refill IN
  IF elapsed <= 0 THEN b
  ELSE [tokens |-> Min(BURST * TokenUnit, b.tokens + elapsed * RATE_PER_SEC),
        last_refill |-> t]

(* variant: the debit of a request that has to wait is not clamped at zero *)
Consume_noclamp(b, t, amount) ==
  LET r == Refill(b, t) IN
  IF r.tokens >= amount
  THEN [bucket |-> [r EXCEPT !.tokens = r.tokens - amount], wait |-> 0]
  ELSE LET needed == amount - r.tokens
           wait_ticks == IF RATE_PER_SEC > 0 THEN needed \div RATE_PER_SEC ELSE 0
       IN [bucket |-> [r EXCEPT !.tokens = r.tokens - amount],
           wait |-> Max(0, wait_ticks)]

Consume(b, t, amount) ==
  LET r == Refill(b, t) IN
  IF r.tokens >= amount
  THEN [bucket |-> [r EXCEPT !.tokens = r.tokens - amount], wait |-> 0]
  ELSE LET needed == amount - r.tokens
           wait_ticks == IF RATE_PER_SEC > 0 THEN needed \div RATE_PER_SEC ELSE 0
       IN [bucket |-> [r EXCEPT !.tokens = Max(0, r.tokens - amount)],
           wait |-> Max(0, wait_ticks)]

(* ------------------------------- cache --------------------------------- *)
NoParams == [some |-> FALSE, kv |-> {}]

CacheKey(method, path, params) ==
  IF params.kv # {} THEN <<method, path, params.kv>> ELSE <<method, path, {}>>

(* variant: an entry is still served at the instant it expires *)
CacheGet_inclusive(store, t, method, path, params) ==
  LET k == CacheKey(method, path, params) IN
  IF k \in DOMAIN store /\ store[k].expires_at >= t
  THEN [hit |-> TRUE, value |-> store[k].value, store |-> store]
  ELSE [hit |-> FALSE, value |-> [error |-> FALSE, status_code |-> NoStatusCode, serial |-> 0],
        store |-> [x \in (DOMAIN store) \ {k} |-> store[x]]]

CacheGet(store, t, method, path, params) ==
  LET k == CacheKey(method, path, params) IN
  IF k \in DOMAIN store /\ store[k].expires_at > t
  THEN [hit |-> TRUE, value |-> store[k].value, store |-> store]
  ELSE [hit |-> FALSE, value |-> [error |-> FALSE, status_code |-> NoStatusCode, serial |-> 0],
        store |-> [x \in (DOMAIN store) \ {k} |-> store[x]]]

(* variant: the time to live is not added to the clock *)
CacheSet_nottl(store, t, method, path, params, value, ttl_seconds) ==
  LET k == CacheKey(method, path, params) IN
  (k :> [value |-> value, expires_at |-> t]) @@ store

CacheSet(store, t, method, path, params, value, ttl_seconds) ==
  LET k == CacheKey(method, path, params) IN
  (k :> [value |-> value, expires_at |-> t + ttl_seconds * TicksPerSec]) @@ store

(* ------------------------------ policy --------------------------------- *)
DefaultPolicy ==
  [allowed_methods |-> {"GET", "POST", "DELETE"},
   confirm_methods |-> {"POST", "DELETE"},
   allowed_markets |-> {"MISX", "FORTS", "RTSX", "XNGS", "SPBEX"},
   max_order_quantity |-> MAX_ORDER_QUANTITY]

(* A policy document that forbids DELETE and asks no confirmation for POST *)
CustomPolicy ==
  [allowed_methods |-> {"GET", "POST"},
   confirm_methods |-> {"DELETE"},
   allowed_markets |-> {"MISX", "FORTS", "RTSX", "XNGS", "SPBEX"},
   max_order_quantity |-> MAX_ORDER_QUANTITY]

Policies == {DefaultPolicy, CustomPolicy}

(* request bodies: shape "none" stands for an absent json keyword *)
NoBody ==
  [shape |-> "none", symbol |-> Lit(""), instrument_mic |-> "", side |-> "",
   order_type |-> "", quantity |-> 0, time_in_force |-> "", has_price |-> FALSE, price |-> 0]

(* the market named by the symbol segment of instruments/<symbol>/...      *)
PathMarket(path) ==
  IF \E i \in 1..(Len(path) - 2) : path[i] = Lit("instruments")
  THEN LET i == CHOOSE j \in 1..(Len(path) - 2) :
                  /\ path[j] = Lit("instruments")
                  /\ \A k \in 1..(j - 1) : path[k] # Lit("instruments")
       IN path[i + 1].mic
  ELSE ""

evaluate_policy(method, path, has_kwargs, json, pol) ==
  LET m == Upper(method) IN
  IF m \notin pol.allowed_methods
  THEN [allowed |-> FALSE, requires_confirm |-> FALSE, reasons |-> <<"Method not allowed">>]
  ELSE
    LET requires_confirm == m \in pol.confirm_methods
        pm == PathMarket(path)
        market == IF pm # "" THEN pm
                  ELSE IF has_kwargs /\ json.shape # "none" THEN json.instrument_mic ELSE ""
        r1 == IF market # "" /\ market \notin pol.allowed_markets
              THEN <<"Market not in allowlist">> ELSE << >>
        r2 == IF m = "POST" /\ has_kwargs /\ json.shape # "none"
                 /\ json.quantity > pol.max_order_quantity
              THEN <<"Order quantity exceeds max policy limit">> ELSE << >>
        reasons == r1 \o r2
    IN [allowed |-> Len(reasons) = 0, requires_confirm |-> requires_confirm,
        reasons |-> reasons]

(* ----------------------------- HTTP client ----------------------------- *)
(* requests.Response is truthy exactly when its status is below 400        *)
ResponseTruthy(status) == status < 400

(* an answer of the remote: its HTTP status and, for a body that is itself *)
(* a JSON object with the keys "error" and "status_code", the code in it   *)
Http(status) == [status |-> status, body_code |-> NoStatusCode]
HttpBody(status, code) == [status |-> status, body_code |-> code]

(* w is the state a call threads through: clock, bucket, cache, the        *)
(* requests put on the wire so far, and the remote's scripted answers;     *)
(* cachedAt is history: the tick at which each cache key was last stored   *)
execute_request(w, method, path, params, json) ==
  LET n == Len(w.wire) + 1
      answer == w.script[Min(n, Len(w.script))]
      status == answer.status
      sent == [method |-> Upper(method), path |-> path, params |-> params, json |-> json]
      resp == IF status < 400
              THEN (* response.json(): the body as the remote wrote it *)
                   [error |-> answer.body_code # NoStatusCode,
                    status_code |-> answer.body_code, serial |-> w.serial + 1]
              ELSE [error |-> TRUE,
                    status_code |-> IF ResponseTruthy(status) THEN status ELSE NoStatusCode,
                    serial |-> w.serial + 1]
  IN [w EXCEPT !.wire = Append(w.wire, sent), !.serial = w.serial + 1, !.resp = resp]

(* ------------------------------- router -------------------------------- *)
(* the value a local name is bound to: S is the singleton of the result of *)
(* a call, evaluated once                                                  *)
Only(S) == CHOOSE x \in S : TRUE

IsRetryable(resp) == resp.error /\ resp.status_code \in RetryableCodes

RECURSIVE with_backoff(_, _, _, _, _, _)
with_backoff(w, method, path, params, json, i) ==
  Only({ IF ~IsRetryable(w1.resp) THEN w1
         ELSE Only({ IF i = Len(Delays) THEN w2
                     ELSE with_backoff(w2, method, path, params, json, i + 1)
                     : w2 \in {[w1 EXCEPT !.now = w1.now + Delays[i],
                                          !.retries = w1.retries + 1]} })
         : w1 \in {execute_request(w, method, path, params, json)} })

(* ------------------------- in-process tool backend ---------------------- *)
StartsWith(path, a, b) == Len(path) >= 2 /\ path[1].txt = a /\ path[2].txt = b

(* the segment reads of call_raw that run past the end of the path: the    *)
(* symbol and the leaf of an instruments path, the second leaf of quotes    *)
(* and trades, the account of an accounts path                              *)
call_raw_raises(m, path) ==
  \/ /\ m = "GET"
     /\ StartsWith(path, "v1", "instruments")
     /\ \/ Len(path) < 4
        \/ Len(path) = 4 /\ path[4].txt \in {"quotes", "trades"}
  \/ StartsWith(path, "v1", "accounts") /\ Len(path) < 3

(* the routes call_raw hands to a tool, which sends the request itself *)
call_raw_routed(m, path) ==
  \/ /\ m = "GET"
     /\ StartsWith(path, "v1", "assets")
     /\ Len(path) <= 3 \/ path[4].txt \in {"params", "schedule", "options"}
  \/ /\ m = "GET"
     /\ StartsWith(path, "v1", "instruments")
     /\ Len(path) >= 4
     /\ \/ path[4].txt \in {"orderbook", "bars"}
        \/ Len(path) >= 5 /\ path[4].txt \in {"quotes", "trades"} /\ path[5].txt = "latest"
  \/ /\ StartsWith(path, "v1", "accounts")
     /\ Len(path) >= 3
     /\ \/ m = "GET" /\ Len(path) = 3
        \/ /\ Len(path) >= 4
           /\ path[4].txt = "orders"
           /\ \/ m = "GET" /\ Len(path) \in {4, 5}
              \/ m = "POST" /\ Len(path) = 4
              \/ m = "DELETE" /\ Len(path) = 5
        \/ m = "GET" /\ Len(path) >= 4 /\ path[4].txt \in {"trades", "transactions"}
  \/ m = "POST" /\ StartsWith(path, "v1", "sessions") /\ Len(path) <= 3

(* MCPRuntime.call_raw: an IndexError leaves the call (raised), a routed    *)
(* request goes out through the client, anything else is answered locally  *)
call_raw(w, method, path, params, json) ==
  IF call_raw_raises(Upper(method), path) THEN [w EXCEPT !.raised = TRUE]
  ELSE IF call_raw_routed(Upper(method), path)
  THEN execute_request(w, Upper(method), path, params, json)
  ELSE [w EXCEPT !.resp = [error |-> ~StartsWith(path, "v1", "exchanges"),
                           status_code |-> NoStatusCode, serial |-> w.serial + 1],
                 !.serial = w.serial + 1]

execute_backend(w, method, path, params, json) ==
  IF w.backend = "mcp"
  THEN call_raw([w EXCEPT !.backendCalls = w.backendCalls + 1], method, path, params, json)
  ELSE with_backoff([w EXCEPT !.backendCalls = w.backendCalls + 1], method, path, params,
                    json, 1)

(* bucket.consume(1.0): the wait it returns is slept *)
acquire(w) ==
  Only({ [w EXCEPT !.bucket = c.bucket, !.now = w.now + c.wait,
                   !.routerCalls = w.routerCalls + 1]
         : c \in {Consume(w.bucket, w.now, 1 * TokenUnit)} })

(* variant: only a response without the error flag is stored *)
store_response_okonly(w2, method, path, params) ==
  IF w2.resp.error THEN w2
  ELSE [w2 EXCEPT !.cache = CacheSet(w2.cache, w2.now, method, path, params, w2.resp,
                                     IF IsVolatile(path) THEN TTL_VOLATILE ELSE TTL_DEFAULT),
                  !.cachedAt = (CacheKey(method, path, params) :> w2.now) @@ w2.cachedAt]

(* the fetched response stored under its key with the ttl of its path *)
store_response(w2, method, path, params) ==
  [w2 EXCEPT !.cache = CacheSet(w2.cache, w2.now, method, path, params, w2.resp,
                                IF IsVolatile(path) THEN TTL_VOLATILE ELSE TTL_DEFAULT),
             !.cachedAt = (CacheKey(method, path, params) :> w2.now) @@ w2.cachedAt]

(* variant: the cache is never consulted, every GET is fetched and stored *)
cached_or_fetched_always(w1, method, path, params, json) ==
  Only({ IF w2.raised THEN w2 ELSE store_response(w2, method, path, params)
         : w2 \in {execute_backend(w1, method, path, params, json)} })

(* the cache branch: a live entry is returned, otherwise the backend is    *)
(* called and its response cached                                          *)
cached_or_fetched(w1, method, path, params, json) ==
  Only({ IF g.hit
         THEN [w1 EXCEPT !.resp = g.value, !.hits = w1.hits + 1]
         ELSE Only({ IF w2.raised THEN w2 ELSE store_response(w2, method, path, params)
                     : w2 \in {execute_backend([w1 EXCEPT !.cache = g.store],
                                               method, path, params, json)} })
         : g \in {CacheGet(w1.cache, w1.now, method, path, params)} })

(* variant: the method test is missing, every request goes through the cache *)
RouterExecute_cacheall(w, method, path, params, json) ==
  Only({ cached_or_fetched(w1, method, path, params, json)
         : w1 \in {acquire(w)} })

RouterExecute(w, method, path, params, json) ==
  Only({ IF Upper(method) = "GET"
         THEN cached_or_fetched(w1, method, path, params, json)
         ELSE execute_backend(w1, method, path, params, json)
         : w1 \in {acquire(w)} })

(* --------------------------- idempotency store -------------------------- *)
generate_intent_hash(method, path, body) == <<method, path, body>>

check_and_remember_idempotency(store, t, key) ==
  LET ttl == IDEMPOTENCY_TTL_SECONDS * TicksPerSec
      kept == {k \in DOMAIN store : ~(t - store[k] > ttl)}
      purged == [k \in kept |-> store[k]]
  IN IF key \in kept
     THEN [ok |-> FALSE, store |-> purged]
     ELSE [ok |-> TRUE, store |-> (key :> t) @@ purged]

(* ------------------------------ audit log ------------------------------ *)
(* variant: the record is built without the reasons *)
log_safety_noreasons(buf, t, method, path, decision, reasons) ==
  LET rec == [ts |-> t, api_method |-> method, api_path |-> path,
              decision |-> decision, reasons |-> << >>]
      all == Append(buf, rec)
  IN IF Len(all) > AuditMaxLen THEN SubSeq(all, Len(all) - AuditMaxLen + 1, Len(all)) ELSE all

log_safety(buf, t, method, path, decision, reasons) ==
  LET rec == [ts |-> t, api_method |-> method, api_path |-> path,
              decision |-> decision, reasons |-> reasons]
      all == Append(buf, rec)
  IN IF Len(all) > AuditMaxLen THEN SubSeq(all, Len(all) - AuditMaxLen + 1, Len(all)) ELSE all

(* ------------------------- planner and extractor ------------------------ *)
(* An assistant text is given by what the pipeline reads out of it: the    *)
(* API_REQUEST directive (method and path), and the order wording (side,   *)
(* type keyword, lots, price, TICKER@MIC).                                 *)
NoSym == Lit("")

extract_api_request(text) ==
  IF text.directive THEN [method |-> text.method, path |-> text.path]
  ELSE [method |-> "", path |-> NoPath]

(* PLACEHOLDER_RE matches {name} with name of letters, digits and "_": the  *)
(* optional form {name?} is no match                                       *)
find_placeholders(path) == {i \in 1..Len(path) : path[i].ph /\ ~path[i].opt}

(* ctx.account_id is "" when the context carries none *)
fill_path_placeholders(path, ctx) ==
  LET can == [i \in find_placeholders(path) |->
                path[i].txt = "account_id" /\ ctx.account_id # ""]
      new_path == [i \in 1..Len(path) |->
                     IF i \in find_placeholders(path) /\ can[i] THEN Lit(ctx.account_id) ELSE path[i]]
  IN [missing |-> \E i \in find_placeholders(path) : ~can[i], path |-> new_path]

infer_market_symbol(seg) ==
  IF seg.txt = "" \/ seg.mic # "" THEN seg ELSE [seg EXCEPT !.mic = "MISX"]

(* the inputs address no /bar or /bars path, whose query rewriting is not  *)
(* modelled                                                                *)
normalize_symbols_in_path(path) ==
  IF \E i \in 1..Len(path) : path[i] = Lit("instruments")
  THEN LET idx == CHOOSE j \in 1..Len(path) :
                    /\ path[j] = Lit("instruments")
                    /\ \A k \in 1..(j - 1) : path[k] # Lit("instruments")
       IN IF idx + 1 <= Len(path)
          THEN [path EXCEPT ![idx + 1] = infer_market_symbol(path[idx + 1])]
          ELSE path
  ELSE path

extract_symbol_from_path(path) ==
  IF \E i \in 1..Len(path) : path[i].mic # ""
  THEN path[CHOOSE j \in 1..Len(path) :
              path[j].mic # "" /\ \A k \in 1..(j - 1) : path[k].mic = ""]
  ELSE NoSym

(* the json body EXECUTE builds from the wording of an order text *)
build_order_body(text, path) ==
  LET p == extract_symbol_from_path(path)
      sym == IF p # NoSym THEN p ELSE text.sym
      order_type == IF text.explicit_type = "market" /\ ~text.has_price THEN "market"
                    ELSE IF text.has_price THEN "limit"
                    ELSE ""
  IN IF sym # NoSym /\ text.side # "" /\ text.qty # 0
        /\ (order_type = "market" \/ (order_type = "limit" /\ text.has_price))
     THEN [shape |-> "flat", symbol |-> sym, instrument_mic |-> "",
           side |-> IF text.side = "buy" THEN "BUY" ELSE "SELL",
           order_type |-> IF order_type = "market" THEN "MARKET" ELSE "LIMIT",
           quantity |-> text.qty,
           time_in_force |-> "DAY",
           has_price |-> order_type = "limit" /\ text.has_price,
           price |-> IF order_type = "limit" /\ text.has_price THEN text.price ELSE 0]
     ELSE NoBody

Lower(x) ==
  CASE x = "BUY" -> "buy"
    [] x = "SELL" -> "sell"
    [] x = "MARKET" -> "market"
    [] x = "LIMIT" -> "limit"
    [] OTHER -> x

(* the {"order": {...}} body of the HTTP-400 fallback *)
nested_body(flat) ==
  [flat EXCEPT !.shape = "nested", !.side = Lower(flat.side),
               !.order_type = Lower(flat.order_type)]

(* ------------------------------ wise orders ----------------------------- *)
quote_path(sym) == <<Lit("v1"), Lit("instruments"), sym, Lit("quotes"), Lit("latest")>>
orderbook_path(sym) == <<Lit("v1"), Lit("instruments"), sym, Lit("orderbook")>>

compute_market_insights(w, sym) ==
  Only({ IF q.raised THEN [q EXCEPT !.raised = FALSE]
         ELSE [RouterExecute(q, "GET", orderbook_path(sym), NoParams, NoBody)
                 EXCEPT !.raised = FALSE]
         : q \in {RouterExecute(w, "GET", quote_path(sym), NoParams, NoBody)} })

(* --------------------------- execute_graph ------------------------------ *)
Result(outcome, method, path, reasons, data, trace) ==
  [outcome |-> outcome, method |-> method, path |-> path, reasons |-> reasons,
   data |-> data, trace |-> trace]

NoData == [error |-> FALSE, status_code |-> NoStatusCode, serial |-> 0]

(* the decisions of the pipeline, in their order in execute_graph *)
(* variant: the test of the verdict is inverted *)
blocked_gate_inverted(ev) == ev.allowed

blocked_gate(ev) == ~ev.allowed

(* variant: the test of the context flag is inverted *)
confirm_gate_inverted(ev, ctx) == ev.requires_confirm /\ ctx.confirm

confirm_gate(ev, ctx) == ev.requires_confirm /\ ~ctx.confirm

(* variant: the dry-run exit is taken for real runs instead *)
dry_run_gate_inverted(ctx) == ~ctx.dry_run

dry_run_gate(ctx) == ctx.dry_run

idempotency_guarded(method) == method \in {"POST", "DELETE"}

is_order_create(method, path) == method = "POST" /\ EndsWithOrders(path)

fallback_applies(method, path, resp) ==
  is_order_create(method, path) /\ resp.status_code = 400

order_symbol(text, path) ==
  Only({ IF p # NoSym THEN p ELSE text.sym : p \in {extract_symbol_from_path(path)} })

(* generic fallback for the order-creation shape on 400 *)
fallback_stage(w1, method, path, json) ==
  IF fallback_applies(method, path, w1.resp)
  THEN Only({ IF ~s.raised /\ ~s.resp.error THEN s
              ELSE [s EXCEPT !.resp = w1.resp, !.raised = FALSE]
              : s \in {RouterExecute(w1, method, path, NoParams, nested_body(json))} })
  ELSE w1

(* post-verify for order creation: its response is dropped *)
post_verify(w2, ctx, is_create) ==
  IF is_create /\ ctx.account_id # ""
  THEN [RouterExecute(w2, "GET",
                      <<Lit("v1"), Lit("accounts"), Lit(ctx.account_id), Lit("orders")>>,
                      NoParams, NoBody) EXCEPT !.resp = w2.resp, !.raised = FALSE]
  ELSE w2

(* insights are computed for the symbol of the request and never replace   *)
(* its response                                                            *)
insights_stage(w3, sym) ==
  IF sym # NoSym
  THEN [compute_market_insights(w3, sym) EXCEPT !.resp = w3.resp]
  ELSE w3

executed(g, chk, w2, w3, text, method, path, trace) ==
  [w |-> insights_stage(w3, order_symbol(text, path)),
   idem |-> chk.store,
   audit |-> log_safety(g.audit, w3.now, method, path, "executed", << >>),
   result |-> Result("executed", method, path, << >>, w3.resp, Append(trace, "execute")),
   execWire |-> Len(w2.wire), execRouter |-> w2.routerCalls]

(* the request goes out; an exception of this first Router call is caught  *)
(* nowhere and leaves execute_graph (outcome "raised": no result object)    *)
send_stage(g, chk, text, ctx, method, path, trace, is_create, json) ==
  Only({ IF w1.raised
         THEN [g EXCEPT !.w = w1, !.idem = chk.store,
                        !.result = Result("raised", method, path, << >>, NoData, trace)]
         ELSE Only({ Only({ executed(g, chk, w2, w3, text, method, path, trace)
                            : w3 \in {post_verify(w2, ctx, is_create)} })
                     : w2 \in {fallback_stage(w1, method, path, json)} })
         : w1 \in {RouterExecute(g.w, method, path, NoParams, json)} })

(* the EXECUTE and POST_PROCESS stages: g carries the world w, the         *)
(* idempotency store and the audit buffer                                  *)
execute_stage(g, text, ctx, method, path, trace) ==
  Only({ IF ~chk.ok
         THEN [g EXCEPT !.idem = chk.store,
                        !.result = Result("idempotency_conflict", method, path, << >>,
                                          NoData, trace)]
         ELSE send_stage(g, chk, text, ctx, method, path, trace,
                         is_order_create(method, path),
                         IF is_order_create(method, path)
                         THEN build_order_body(text, path) ELSE NoBody)
         : chk \in {IF idempotency_guarded(method)
                    THEN check_and_remember_idempotency(
                           g.idem, g.w.now, generate_intent_hash(method, path, ""))
                    ELSE [ok |-> TRUE, store |-> g.idem]} })

(* the plan without method and path returns at once, so the extraction of  *)
(* graph.py:187-198 is never entered and "extract" only marks the trace    *)
execute_graph(g, text, ctx, pol) ==
  LET plan == extract_api_request(text)
      trace1 == <<"plan">>
  IN
  IF plan.method = "" \/ plan.path = NoPath
  THEN [g EXCEPT !.result = Result("disambiguation", "", NoPath, << >>, NoData, trace1)]
  ELSE
    LET trace2 == Append(trace1, "extract")
        filled == fill_path_placeholders(plan.path, ctx)
    IN
    IF find_placeholders(plan.path) # {} /\ filled.missing
    THEN [g EXCEPT !.result = Result("disambiguation", "", plan.path, << >>, NoData, trace2)]
    ELSE
      LET path == normalize_symbols_in_path(filled.path)
          method == plan.method
          trace3 == Append(trace2, "placeholders")
          ev == evaluate_policy(method, path, FALSE, NoBody, pol)
      IN
      IF blocked_gate(ev)
      THEN [g EXCEPT !.audit = log_safety(g.audit, g.w.now, method, path, "blocked", ev.reasons),
                     !.result = Result("blocked", method, path, ev.reasons, NoData, trace3)]
      ELSE IF confirm_gate(ev, ctx)
      THEN [g EXCEPT !.audit = log_safety(g.audit, g.w.now, method, path, "needs_confirm",
                                          <<"confirm_required">>),
                     !.result = Result("requires_confirmation", method, path, << >>, NoData, trace3)]
      ELSE IF dry_run_gate(ctx)
      THEN [g EXCEPT !.result = Result("dry_run", method, path, << >>, NoData, trace3)]
      ELSE execute_stage(g, text, ctx, method, path, trace3)

(* ------------------------------- inputs -------------------------------- *)
Text(method, path, side, explicit_type, qty, sym) ==
  [directive |-> TRUE, method |-> method, path |-> path, side |-> side,
   explicit_type |-> explicit_type, qty |-> qty, has_price |-> FALSE, price |-> 0,
   sym |-> sym, syn |-> {}]

(* no API_REQUEST line *)
TxtNone == [Text("", NoPath, "", "", 0, NoSym) EXCEPT !.directive = FALSE]
(* "API_REQUEST: POST /v1/accounts/{account_id}/orders" buy 10 lots SBER@MISX at market *)
TxtBuy == Text("POST", P_ORDERS_T, "buy", "market", 10, Sym("SBER", "MISX"))
(* the same order for 10001 lots *)
TxtBuyBig == Text("POST", P_ORDERS_T, "buy", "market", MAX_ORDER_QUANTITY + 1, Sym("SBER", "MISX"))
(* "API_REQUEST: post /v1/accounts/A1/orders" *)
TxtBuyLower == Text("post", P_ORDERS, "buy", "market", 10, NoSym)
(* "API_REQUEST: DELETE /v1/accounts/A1/orders/ORD1" *)
TxtCancel == Text("DELETE", P_ORDER1, "", "", 0, NoSym)
(* "API_REQUEST: GET /v1/instruments/SBER/quotes/latest" *)
TxtQuote == Text("GET", P_QUOTE_BARE, "", "", 0, NoSym)
(* "API_REQUEST: GET /v1/instruments/AAPL@XNYS/orderbook" *)
TxtBookX == Text("GET", P_BOOK_X, "", "", 0, NoSym)

Texts == {TxtNone, TxtBuy, TxtBuyBig, TxtBuyLower, TxtCancel, TxtQuote, TxtBookX}

Ctx(dry_run, account_id, confirm) ==
  [dry_run |-> dry_run, account_id |-> account_id, confirm |-> confirm]

Ctxs == {Ctx(TRUE, "A1", FALSE), Ctx(FALSE, "A1", FALSE), Ctx(FALSE, "A1", TRUE),
         Ctx(TRUE, "A1", TRUE), Ctx(FALSE, "", TRUE)}

(* the remote's HTTP status for the k-th request of a call (the last entry *)
(* repeats)                                                                *)
Scripts == {<<Http(200)>>, <<Http(400), Http(200)>>}

Deltas == {599, 600, 601}

(* ------------------------------- actions ------------------------------- *)
World(script) ==
  [now |-> now, bucket |-> bucket, cache |-> cache_store, wire |-> << >>,
   script |-> script, resp |-> NoData, backendCalls |-> 0, routerCalls |-> 0,
   retries |-> 0, hits |-> 0, serial |-> serial, cachedAt |-> cached_at,
   backend |-> "http", raised |-> FALSE]

IsWrite(method) == Upper(method) \in {"POST", "DELETE"}

(* the identity of a write request: method, resolved path and body *)
WriteId(r, text) ==
  <<r.method, r.path,
    IF is_order_create(r.method, r.path) THEN build_order_body(text, r.path) ELSE NoBody>>

(* the objects after construction, the token bucket apart *)
Fresh ==
  /\ now = 0
  /\ cache_store = << >>
  /\ idempotency_store = << >>
  /\ audit_buf = << >>
  /\ policy \in Policies
  /\ serial = 0
  /\ accepted = << >>
  /\ cached_at = << >>
  /\ last = [kind |-> "none", result |-> [outcome |-> ""]]
  /\ calls = 0
  /\ advances = 0

Constructed == Fresh /\ bucket = NewBucket(0)

(* a single caller: no thread is inside a shared object *)
Init == Constructed /\ threads = << >>

(* one call of execute_graph on a Router of the given backend; last        *)
(* records what the call did                                               *)
GraphRun(text, ctx, script, backend) ==
  /\ LET g0 == [w |-> [World(script) EXCEPT !.backend = backend], idem |-> idempotency_store, audit |-> audit_buf,
                result |-> Result("", "", NoPath, << >>, NoData, << >>),
                execWire |-> 0, execRouter |-> 0]
     IN \E g \in {execute_graph(g0, text, ctx, policy)} :
        \E id \in {WriteId(g.result, text)} :
          LET r == g.result
              reached == r.outcome \in {"idempotency_conflict", "executed"} /\ IsWrite(r.method)
          IN /\ now' = g.w.now
             /\ bucket' = g.w.bucket
             /\ cache_store' = g.w.cache
             /\ idempotency_store' = g.idem
             /\ audit_buf' = g.audit
             /\ serial' = g.w.serial
             /\ cached_at' = g.w.cachedAt
             /\ accepted' = IF r.outcome = "executed" /\ IsWrite(r.method)
                            THEN (id :> now) @@ accepted ELSE accepted
             /\ last' = [kind |-> "graph", text |-> text, ctx |-> ctx, at |-> now,
                         backend |-> backend, result |-> r, wire |-> g.w.wire,
                         routerCalls |-> g.w.routerCalls, backendCalls |-> g.w.backendCalls,
                         hits |-> g.w.hits, execWire |-> g.execWire,
                         execRouter |-> g.execRouter,
                         seen |-> reached /\ id \in DOMAIN accepted,
                         seenAt |-> IF reached /\ id \in DOMAIN accepted THEN accepted[id] ELSE 0,
                         fpSeen |-> \E a \in DOMAIN accepted :
                                      /\ a[1] = r.method
                                      /\ a[2] = r.path
                                      /\ ~(now - accepted[a] > IDEMPOTENCY_TTL_SECONDS * TicksPerSec),
                         repeatOfUnconfirmed |->
                           /\ last.kind = "graph"
                           /\ last.result.outcome = "requires_confirmation"
                           /\ text = last.text
                           /\ ctx = [last.ctx EXCEPT !.confirm = TRUE],
                         repeatOfFailed |->
                           /\ last.kind = "graph"
                           /\ IsWrite(last.result.method)
                           /\ \/ last.result.outcome = "raised"
                              \/ last.result.outcome = "executed" /\ last.result.data.error
                           /\ text = last.text
                           /\ ctx = last.ctx,
                         prevAt |-> IF last.kind = "graph" THEN last.at ELSE 0]
  /\ calls' = calls + 1
  /\ UNCHANGED <<policy, threads, advances>>

(* the Router of the default construction: the HTTP backend *)
GraphStep(text, ctx, script) == GraphRun(text, ctx, script, "http")

ExecuteGraph(text, ctx, script) ==
  /\ calls < MaxCalls
  /\ GraphStep(text, ctx, script)

Advance(d) ==
  /\ now + d <= MaxTime
  /\ now' = now + d
  /\ advances' = advances + 1
  /\ UNCHANGED <<bucket, cache_store, idempotency_store, audit_buf, policy, threads, serial,
                 accepted, cached_at, last, calls>>

Next ==
  \/ \E text \in Texts, ctx \in Ctxs, script \in Scripts : ExecuteGraph(text, ctx, script)
  \/ \E d \in Deltas : Advance(d)

Spec == Init /\ [][Next]_vars

(* ------------------------- the confirm dialogue ------------------------- *)
(* longer runs of execute_graph over write requests: an order or a cancel  *)
(* is refused for want of confirmation, confirmed, and sent again          *)
ConfirmTexts == {TxtBuy, TxtBuyBig, TxtCancel}

ConfirmCtxs == {Ctx(FALSE, "A1", FALSE), Ctx(FALSE, "A1", TRUE), Ctx(TRUE, "A1", TRUE)}

ConfirmCall(text, ctx, script) ==
  /\ calls < MaxConfirmCalls
  /\ GraphStep(text, ctx, script)

NextConfirm ==
  \/ \E text \in ConfirmTexts, ctx \in ConfirmCtxs, script \in Scripts :
       ConfirmCall(text, ctx, script)
  \/ \E d \in Deltas : Advance(d)

SpecConfirm == Init /\ [][NextConfirm]_vars


(* ============================== properties ============================== *)
LastGraph == last.kind = "graph"
Outcome == last.result.outcome
ReachedExecute == LastGraph /\ Outcome \in {"executed", "idempotency_conflict"}
IdemTTL == IDEMPOTENCY_TTL_SECONDS * TicksPerSec
WritesSent(wire) == Cardinality({i \in 1..Len(wire) : wire[i].method \in {"POST", "DELETE"}})

(* the policy denies: method outside allowedMethods, or the market of the *)
(* path's symbol outside allowedMarkets                                    *)
Denied(method, path) ==
  \/ Upper(method) \notin policy.allowed_methods
  \/ PathMarket(path) # "" /\ PathMarket(path) \notin policy.allowed_markets

(* C1: a confirmed, non-dry-run write that reaches EXECUTE while an        *)
(* identical write was accepted less than the idempotency TTL earlier ends *)
(* as an idempotency conflict without any Router.execute call; once the    *)
(* TTL has elapsed since that acceptance it is executed and forwarded.     *)
C1_Claim ==
  (ReachedExecute /\ IsWrite(last.result.method) /\ last.ctx.confirm
     /\ ~last.ctx.dry_run /\ last.seen)
  => /\ (last.at - last.seenAt < IdemTTL)
          => (Outcome = "idempotency_conflict" /\ last.routerCalls = 0)
     /\ (last.at - last.seenAt >= IdemTTL)
          => (Outcome = "executed" /\ WritesSent(last.wire) >= 1)

(* C2: an accepted write is put on the wire exactly once, and a write      *)
(* identical to one accepted within the TTL is put on the wire zero times. *)
C2_Claim ==
  (ReachedExecute /\ IsWrite(last.result.method))
  => /\ (Outcome = "executed") => (WritesSent(last.wire) = 1)
     /\ (last.seen /\ last.at - last.seenAt < IdemTTL) => (WritesSent(last.wire) = 0)

(* C3: a request whose method is in policy.confirmMethods never reaches    *)
(* the Router while ctx.confirm is false: if the policy allows it the call *)
(* ends as RequiresConfirmation and leaves the idempotency store as it     *)
(* was, and the same call repeated with confirm=true (no dry run) is       *)
(* executed and forwarded, unless a write with the same method and path    *)
(* was accepted within the idempotency TTL.                                *)
C3_Gate ==
  (LastGraph /\ last.text.directive /\ Upper(last.text.method) \in policy.confirm_methods
     /\ ~last.ctx.confirm)
  => /\ last.routerCalls = 0
     /\ last.wire = << >>
     /\ Outcome \in {"requires_confirmation", "blocked", "disambiguation"}
     /\ (last.result.method # "" /\ ~Denied(last.result.method, last.result.path))
          => Outcome = "requires_confirmation"

C3_Forwarded ==
  /\ Outcome = "executed"
  /\ \E i \in 1..Len(last.wire) :
       /\ last.wire[i].method = Upper(last.result.method)
       /\ last.wire[i].path = last.result.path

C3_Repeat ==
  (LastGraph /\ last.repeatOfUnconfirmed /\ ~last.ctx.dry_run)
  => /\ ReachedExecute
     /\ ~last.fpSeen => C3_Forwarded

C3_NoRecord ==
  (calls' = calls + 1 /\ last'.kind = "graph"
     /\ last'.result.outcome = "requires_confirmation")
  => UNCHANGED idempotency_store

C4_State ==
  (LastGraph /\ last.result.method # "" /\ Denied(last.result.method, last.result.path))
  => /\ Outcome = "blocked"
     /\ Len(last.result.reasons) > 0
     /\ last.routerCalls = 0 /\ last.backendCalls = 0 /\ last.wire = << >>

C4_Frame ==
  (calls' = calls + 1 /\ last'.kind = "graph" /\ last'.result.method # ""
     /\ Denied(last'.result.method, last'.result.path))
  => UNCHANGED <<cache_store, bucket, idempotency_store>>

C4_Theorem == []C4_State /\ [][C4_Frame]_vars

C4_Witness ==
  /\ LastGraph /\ Outcome = "blocked" /\ cache_store # << >> /\ idempotency_store # << >>

(* C5: no order-creation POST whose body quantity exceeds                  *)
(* policy.maxOrderQuantity is put on the wire.                             *)
C5_Claim ==
  LastGraph =>
    \A i \in 1..Len(last.wire) :
      ~(last.wire[i].method = "POST" /\ last.wire[i].json.quantity > policy.max_order_quantity)

(* C6: every execute_graph call appends exactly one audit record carrying  *)
(* its decision: blocked with the reasons when the policy denies,          *)
(* needs_confirm when confirmation is pending, executed when the Router    *)
(* was called in the EXECUTE stage.                                        *)
Pushed(old, new, decision, method, path, reasons) ==
  /\ Len(new) = Min(Len(old) + 1, AuditMaxLen)
  /\ \A i \in 1..(Len(new) - 1) : new[i] = old[Len(old) - (Len(new) - 1) + i]
  /\ new[Len(new)].decision = decision
  /\ new[Len(new)].api_method = method
  /\ new[Len(new)].api_path = path
  /\ new[Len(new)].reasons = reasons

C6_Step ==
  (calls' = calls + 1 /\ last'.kind = "graph" /\ last'.result.method # "")
  => LET r == last'.result
         denied == Denied(r.method, r.path)
         pending == ~denied /\ Upper(r.method) \in policy.confirm_methods /\ ~last'.ctx.confirm
     IN /\ denied => (r.reasons # << >>
                      /\ Pushed(audit_buf, audit_buf', "blocked", r.method, r.path, r.reasons))
        /\ pending => Pushed(audit_buf, audit_buf', "needs_confirm", r.method, r.path,
                             <<"confirm_required">>)
        /\ (last'.execRouter > 0)
             => Pushed(audit_buf, audit_buf', "executed", r.method, r.path, << >>)

C7_State ==
  (LastGraph /\ last.ctx.dry_run)
  => (last.routerCalls = 0 /\ last.backendCalls = 0 /\ last.wire = << >>)

C7_Frame ==
  (calls' = calls + 1 /\ last'.kind = "graph" /\ last'.ctx.dry_run)
  => UNCHANGED <<cache_store, bucket, idempotency_store>>

C7_Theorem == []C7_State /\ [][C7_Frame]_vars

C7_Witness ==
  /\ LastGraph /\ Outcome = "dry_run" /\ last.ctx.dry_run
  /\ cache_store # << >> /\ idempotency_store # << >>
  /\ bucket.tokens < BURST * TokenUnit

(* ---------------------- the router called directly ---------------------- *)
DepthParams == [some |-> TRUE, kv |-> {<<"depth", 10>>}]

RouterMethods == {"GET", "get", "POST"}
RouterPaths == {P_QUOTE, P_ACCOUNT}
RouterParams == {NoParams, DepthParams}
RouterScripts == {<<Http(200)>>, <<Http(503)>>}
RouterDeltas == {299, 300, 2999, 3000}

RouterCall(method, path, params, script) ==
  /\ calls < MaxRouterCalls
  /\ \E w \in {RouterExecute(World(script), method, path, params, NoBody)} :
     \E k \in {CacheKey(method, path, params)} :
       /\ now' = w.now
       /\ bucket' = w.bucket
       /\ cache_store' = w.cache
       /\ serial' = w.serial
       /\ cached_at' = w.cachedAt
       /\ last' = [kind |-> "router", method |-> method, path |-> path, params |-> params,
                   at |-> now, resp |-> w.resp, wire |-> w.wire,
                   routerCalls |-> w.routerCalls, backendCalls |-> w.backendCalls,
                   hits |-> w.hits, retries |-> w.retries,
                   stamped |-> k \in DOMAIN cached_at,
                   stampAt |-> IF k \in DOMAIN cached_at THEN cached_at[k] ELSE 0,
                   prev |-> IF last.kind = "router"
                            THEN [same |-> last.method = method /\ last.path = path
                                           /\ last.params = params,
                                  resp |-> last.resp, backendCalls |-> last.backendCalls,
                                  retries |-> last.retries]
                            ELSE [same |-> FALSE, resp |-> NoData, backendCalls |-> 0,
                                  retries |-> 0]]
  /\ calls' = calls + 1
  /\ UNCHANGED <<idempotency_store, audit_buf, policy, threads, accepted, advances>>

RouterAdvance(d) ==
  /\ advances < MaxRouterAdvances
  /\ now' = now + d
  /\ advances' = advances + 1
  /\ UNCHANGED <<bucket, cache_store, idempotency_store, audit_buf, policy, threads, serial,
                 accepted, cached_at, last, calls>>

(* the requests the callers make: every method on every path without      *)
(* query parameters, and the quote read with a depth parameter as well     *)
RouterRequests ==
  {r \in RouterMethods \X RouterPaths \X RouterParams :
     r[3] = DepthParams => (r[1] = "GET" /\ r[2] = P_QUOTE)}

NextRouter ==
  \/ \E r \in RouterRequests, script \in RouterScripts : RouterCall(r[1], r[2], r[3], script)
  \/ \E d \in RouterDeltas : RouterAdvance(d)

InitRouter == Init /\ policy = DefaultPolicy

SpecRouter == InitRouter /\ [][NextRouter]_vars

(* ---------------------- properties of the router ------------------------ *)
LastRouter == last.kind = "router"

(* the time to live, in ticks, the router gives a path *)
TTLTicks(path) ==
  (IF ContainsSeg(path, "orderbook") \/ ContainsSeg(path, "quotes") THEN 30 ELSE 300)
    * TicksPerSec

(* C8: of two consecutive Router.execute GET calls with identical method,  *)
(* path and params, the second made before the stored entry expires makes  *)
(* no backend call (at most one in total) and returns the cached value.    *)
C8_Theorem ==
  (LastRouter /\ Upper(last.method) = "GET" /\ last.prev.same /\ last.stamped
     /\ last.at < last.stampAt + TTLTicks(last.path))
  => /\ last.backendCalls = 0
     /\ last.wire = << >>
     /\ last.prev.backendCalls + last.backendCalls <= 1
     /\ last.resp = last.prev.resp

C8_Witness ==
  /\ LastRouter /\ Upper(last.method) = "GET" /\ last.prev.same
  /\ last.prev.backendCalls = 1 /\ last.hits = 1
  /\ last.at = last.stampAt + TTLTicks(last.path) - 1

(* C9: a cached GET response is served only while the clock is before the *)
(* caching time plus 30 s (paths with /orderbook or /quotes) or plus 300 s *)
(* (other paths); at or after that instant the entry is dropped and the    *)
(* identical GET calls the backend again and stores the fresh response.    *)
C9_Theorem ==
  /\ \A k \in DOMAIN cache_store :
       k \in DOMAIN cached_at /\ cache_store[k].expires_at = cached_at[k] + TTLTicks(k[2])
  /\ (LastRouter /\ Upper(last.method) = "GET" /\ last.stamped)
     => LET exp == last.stampAt + TTLTicks(last.path)
            k == CacheKey(last.method, last.path, last.params)
        IN /\ (last.hits = 1) => (last.at < exp)
           /\ (last.at >= exp)
                => /\ last.hits = 0 /\ last.backendCalls = 1 /\ Len(last.wire) >= 1
                   /\ k \in DOMAIN cache_store
                   /\ cache_store[k].value = last.resp
                   /\ cached_at[k] >= last.at

C9_Witness ==
  /\ LastRouter /\ Upper(last.method) = "GET" /\ last.stamped
  /\ last.at = last.stampAt + TTLTicks(last.path)
  /\ last.backendCalls = 1

(* C10: Router.execute with a non-GET method always calls the backend,     *)
(* returns the backend's fresh response, never a cached one, and leaves    *)
(* the cache as it was.                                                    *)
C10_State ==
  (LastRouter /\ Upper(last.method) # "GET")
  => /\ last.backendCalls = 1 /\ last.hits = 0 /\ Len(last.wire) >= 1
     /\ last.resp.serial = serial

C10_Frame ==
  (calls' = calls + 1 /\ last'.kind = "router" /\ Upper(last'.method) # "GET")
  => UNCHANGED cache_store

C10_Theorem == []C10_State /\ [][C10_Frame]_vars

C10_Witness ==
  /\ LastRouter /\ Upper(last.method) # "GET" /\ last.backendCalls = 1
  /\ \E k \in DOMAIN cache_store : k[2] = last.path /\ k[3] = last.params.kv

(* ====================== the rate limiter under load ===================== *)
(* Router.execute called back to back from a full bucket; the only time    *)
(* that passes is what the limiter sleeps and what the caller idles.       *)
BurstMethods == {"GET", "POST"}
BurstIdles == {1, 2}

BurstCall(method) ==
  /\ calls < MaxBurstCalls
  /\ \E w \in {RouterExecute(World(<<Http(200)>>), method, P_ACCOUNT, NoParams, NoBody)} :
       /\ now' = w.now
       /\ bucket' = w.bucket
       /\ cache_store' = w.cache
       /\ serial' = w.serial
       /\ cached_at' = w.cachedAt
       /\ last' = [kind |-> "burst", method |-> method, at |-> now, wait |-> w.now - now,
                   free |-> IF w.now # now THEN 0
                            ELSE IF last.kind = "burst" /\ last.at + last.wait = now
                                 THEN last.free + 1
                                 ELSE 1]
  /\ calls' = calls + 1
  /\ UNCHANGED <<idempotency_store, audit_buf, policy, threads, accepted, advances>>

BurstIdle(d) ==
  /\ advances < MaxBurstIdles
  /\ now' = now + d
  /\ advances' = advances + 1
  /\ UNCHANGED <<bucket, cache_store, idempotency_store, audit_buf, policy, threads, serial,
                 accepted, cached_at, last, calls>>

NextBurst ==
  \/ \E method \in BurstMethods : BurstCall(method)
  \/ \E d \in BurstIdles : BurstIdle(d)

SpecBurst == InitRouter /\ [][NextBurst]_vars

(* C11: from a full bucket, BURST + k sequential Router.execute calls take *)
(* at least k / RATE_PER_SEC seconds end to end, and no more than BURST    *)
(* calls pass without waiting at one instant.                              *)
C11_Claim ==
  last.kind = "burst"
  => /\ calls > BURST => now * RATE_PER_SEC >= (calls - BURST) * TicksPerSec
     /\ last.free <= BURST

(* ========================= the token bucket alone ======================= *)
(* TokenBucket.consume with any positive amount under a clock that may     *)
(* stand still or step backwards; amounts are in token units               *)
BucketAmounts == {TokenUnit \div 2, TokenUnit, 3 * TokenUnit, (BURST + 5) * TokenUnit}
Clocks == {0, 1, 2, 5, 20, 40}

BucketConsume(amount) ==
  /\ calls < MaxBucketCalls
  /\ \E c \in {Consume(bucket, now, amount)} :
       /\ bucket' = c.bucket
       /\ last' = [kind |-> "consume", amount |-> amount, wait |-> c.wait]
  /\ calls' = calls + 1
  /\ UNCHANGED <<now, cache_store, idempotency_store, audit_buf, policy, threads, serial,
                 accepted, cached_at, advances>>

ClockStep(t) ==
  /\ advances < MaxClockSteps
  /\ now' = t
  /\ advances' = advances + 1
  /\ UNCHANGED <<bucket, cache_store, idempotency_store, audit_buf, policy, threads, serial,
                 accepted, cached_at, last, calls>>

NextBucket ==
  \/ \E amount \in BucketAmounts : BucketConsume(amount)
  \/ \E t \in Clocks : ClockStep(t)

SpecBucket == InitRouter /\ [][NextBucket]_vars

(* C12: 0 <= tokens <= BURST after construction and after every consume,   *)
(* whatever the amount and the clock reading, and the tokens change only   *)
(* in a consume call.                                                      *)
C12_Range == 0 <= bucket.tokens /\ bucket.tokens <= BURST * TokenUnit

C12_Lazy == bucket' # bucket => (calls' = calls + 1 /\ last'.kind = "consume")

C12_Theorem == []C12_Range /\ [][C12_Lazy]_vars

(* a consume that had to wait, read from a clock behind the last refill *)
C12_Witness ==
  /\ last.kind = "consume" /\ last.wait > 0
  /\ now < bucket.last_refill
  /\ bucket.tokens = 0

(* ========================== the retry loop ============================== *)
(* Router.execute with the HTTP backend against a remote that answers with *)
(* errors: HTTP error statuses, and bodies of successful responses that    *)
(* carry "error" and "status_code" themselves                              *)
RetryMethods == {"GET", "POST"}
RetryScripts ==
  {<<Http(200)>>, <<Http(503)>>, <<Http(429), Http(200)>>, <<Http(404)>>,
   <<HttpBody(200, 503)>>, <<HttpBody(200, 429), HttpBody(200, 500), Http(200)>>,
   <<HttpBody(200, 502), HttpBody(200, 504), HttpBody(200, 404)>>}
RetryIdles == {1, 300, 3000}

RetryCall(method, script) ==
  /\ calls < MaxRetryCalls
  /\ \E w \in {RouterExecute(World(script), method, P_ACCOUNT, NoParams, NoBody)} :
       /\ now' = w.now
       /\ bucket' = w.bucket
       /\ cache_store' = w.cache
       /\ serial' = w.serial
       /\ cached_at' = w.cachedAt
       /\ last' = [kind |-> "retry", method |-> method, script |-> script, at |-> now,
                   resp |-> w.resp, wire |-> w.wire, retries |-> w.retries,
                   backendCalls |-> w.backendCalls, hits |-> w.hits, serial |-> w.serial]
  /\ calls' = calls + 1
  /\ UNCHANGED <<idempotency_store, audit_buf, policy, threads, accepted, advances>>

RetryIdle(d) ==
  /\ advances < MaxRetryCalls
  /\ now' = now + d
  /\ advances' = advances + 1
  /\ UNCHANGED <<bucket, cache_store, idempotency_store, audit_buf, policy, threads, serial,
                 accepted, cached_at, last, calls>>

NextRetry ==
  \/ \E method \in RetryMethods, script \in RetryScripts : RetryCall(method, script)
  \/ \E d \in RetryIdles : RetryIdle(d)

SpecRetry == InitRouter /\ [][NextRetry]_vars

LastRetry == last.kind = "retry"
(* the remote's answer to the i-th request of the last call *)
AnswerAt(i) == last.script[Min(i, Len(last.script))]

(* C13: one Router.execute call over the HTTP backend invokes the client   *)
(* at most 4 times; when all 4 attempts come back retryable the call       *)
(* returns the response of the last attempt, an error.                     *)
C13_Theorem ==
  LastRetry
  => /\ Len(last.wire) <= 4
     /\ last.retries <= 4
     /\ last.retries = 4
          => /\ Len(last.wire) = 4
             /\ last.resp.error
             /\ last.resp.status_code \in RetryableCodes
             /\ last.resp.serial = last.serial

C13_Witness == LastRetry /\ last.retries = 4 /\ last.resp.status_code = 503

(* C14: a response is followed by another attempt exactly when its HTTP    *)
(* status is 429, 500, 502, 503 or 504, and an HTTP error is returned in   *)
(* the error shape with its status code.                                   *)
C14_Claim ==
  (LastRetry /\ last.hits = 0)
  => /\ \A i \in 1..Len(last.wire) :
          /\ i < Len(last.wire) => AnswerAt(i).status \in RetryableCodes
          /\ (i = Len(last.wire) /\ i < 4) => AnswerAt(i).status \notin RetryableCodes
     /\ AnswerAt(Len(last.wire)).status >= 400
          => /\ last.resp.error
             /\ last.resp.status_code = AnswerAt(Len(last.wire)).status

(* ========================== the safety policy =========================== *)
(* evaluate_policy applied to requests with and without a json body, under *)
(* the policy documents of Policies                                        *)
PolicyMethods == {"GET", "POST", "DELETE", "delete", "PATCH"}
PolicyPaths == {P_ORDERS, P_QUOTE, P_BOOK_X}

(* a json body {"instrument": "SBER@<mic>", "quantity": qty} *)
OrderJson(mic, qty) ==
  [NoBody EXCEPT !.shape = "flat", !.symbol = Sym("SBER", mic), !.instrument_mic = mic,
                 !.quantity = qty]

PolicyBodies ==
  {NoBody, OrderJson("MISX", 10), OrderJson("XNYS", 10),
   OrderJson("MISX", MAX_ORDER_QUANTITY + 1), OrderJson("XNYS", MAX_ORDER_QUANTITY + 1)}

(* request_kwargs is None, or {"json": json} when json is a body *)
EvaluatePolicy(method, path, json) ==
  /\ calls < MaxPolicyCalls
  /\ last' = [kind |-> "policy", method |-> method, path |-> path, json |-> json,
              ev |-> evaluate_policy(method, path, json # NoBody, json, policy)]
  /\ calls' = calls + 1
  /\ UNCHANGED <<now, bucket, cache_store, idempotency_store, audit_buf, policy, threads, serial,
                 accepted, cached_at, advances>>

NextPolicy ==
  \E method \in PolicyMethods, path \in PolicyPaths, json \in PolicyBodies :
    EvaluatePolicy(method, path, json)

SpecPolicy == Init /\ [][NextPolicy]_vars

LastPolicy == last.kind = "policy"

(* C15: requires_confirm is true exactly when the method is one of the     *)
(* policy's confirm methods, whether the request is allowed or denied.     *)
C15_Claim ==
  LastPolicy => (last.ev.requires_confirm <=> Upper(last.method) \in policy.confirm_methods)

(* the rules a request violates *)
MethodViolated == Upper(last.method) \notin policy.allowed_methods
RequestMarket ==
  IF PathMarket(last.path) # "" THEN PathMarket(last.path) ELSE last.json.instrument_mic
MarketViolated == RequestMarket # "" /\ RequestMarket \notin policy.allowed_markets
QuantityViolated ==
  /\ Upper(last.method) = "POST" /\ last.json # NoBody
  /\ last.json.quantity > policy.max_order_quantity
Count(b) == IF b THEN 1 ELSE 0

(* C16: reasons holds one entry for each rule the request violates, and    *)
(* allowed is true exactly when reasons is empty.                          *)
C16_Claim ==
  LastPolicy
  => /\ Len(last.ev.reasons)
          = Count(MethodViolated) + Count(MarketViolated) + Count(QuantityViolated)
     /\ last.ev.allowed <=> last.ev.reasons = << >>

(* ================== planning and placeholder filling ==================== *)
(* execute_graph on texts without a directive and on directives whose path *)
(* carries placeholders                                                    *)
(* "API_REQUEST: GET /v1/accounts/{account_id}/orders" *)
TxtOrdersList ==
  Text("GET", <<Lit("v1"), Lit("accounts"), Ph("account_id"), Lit("orders")>>, "", "", 0, NoSym)
(* "API_REQUEST: GET /v1/accounts/{account_id?}/orders" *)
TxtOrdersOpt ==
  Text("GET", <<Lit("v1"), Lit("accounts"), PhOpt("account_id"), Lit("orders")>>, "", "", 0, NoSym)
(* "API_REQUEST: GET /v1/accounts/{account_id}/orders/{order_id}" *)
TxtOrderGet ==
  Text("GET", <<Lit("v1"), Lit("accounts"), Ph("account_id"), Lit("orders"), Ph("order_id")>>,
       "", "", 0, NoSym)

(* "котировка SBER@MISX": no API_REQUEST line, a quote synonym and a symbol *)
TxtAskQuote == [TxtNone EXCEPT !.syn = {"QuoteRequest"}, !.sym = Sym("SBER", "MISX")]
(* "котировка": no API_REQUEST line, a quote synonym and no instrument *)
TxtAskBare == [TxtNone EXCEPT !.syn = {"QuoteRequest"}]

PlanTexts == {TxtNone, TxtQuote, TxtBuy, TxtOrdersList, TxtOrdersOpt, TxtOrderGet,
              TxtAskQuote, TxtAskBare}

PlanCall(text, ctx) ==
  /\ calls < MaxPlanCalls
  /\ GraphStep(text, ctx, <<Http(200)>>)

NextPlan == \E text \in PlanTexts, ctx \in Ctxs : PlanCall(text, ctx)

SpecPlan == Init /\ [][NextPlan]_vars

(* the placeholders of the planned path that the context cannot fill *)
Unfillable(path, ctx) ==
  {i \in 1..Len(path) : path[i].ph /\ ~(path[i].txt = "account_id" /\ ctx.account_id # "")}

(* C18: no request execute_graph sends carries a placeholder in its path,  *)
(* and a planned path with a placeholder the context cannot fill ends as   *)
(* NeedsDisambiguation without any Router call.                            *)
C18_Claim ==
  (LastGraph /\ last.text.directive)
  => /\ \A i \in 1..Len(last.wire) :
          \A j \in 1..Len(last.wire[i].path) : ~last.wire[i].path[j].ph
     /\ Unfillable(last.text.path, last.ctx) # {}
          => (Outcome = "disambiguation" /\ last.routerCalls = 0)

(* =========================== endpoint registry ========================== *)
(* The declarative endpoint source (configs/endpoints.yaml): one entry per *)
(* intent, in declaration order, with the paths the client uses.           *)
Endpoint(schema, method, path, params) ==
  [schema |-> schema, method |-> method, path |-> path, params |-> params]

(* a query template "{field}" or "{field?}" *)
QueryTpl(field, optional) == [field |-> field, optional |-> optional]

InstrumentTpl(tail) == <<Lit("v1"), Lit("instruments"), Ph("symbol")>> \o tail
AccountTpl(tail) == <<Lit("v1"), Lit("accounts"), Ph("account_id")>> \o tail
AssetTpl(tail) == <<Lit("v1"), Lit("assets"), Ph("symbol")>> \o tail

Endpoints ==
  << Endpoint("QuoteRequest", "GET", InstrumentTpl(<<Lit("quotes"), Lit("latest")>>), {}),
     Endpoint("OrderbookRequest", "GET", InstrumentTpl(<<Lit("orderbook")>>),
              {QueryTpl("depth", TRUE)}),
     Endpoint("BarsRequest", "GET", InstrumentTpl(<<Lit("bars")>>),
              {QueryTpl("timeframe", FALSE), QueryTpl("start", TRUE), QueryTpl("end", TRUE)}),
     Endpoint("AccountRequest", "GET", AccountTpl(<< >>), {}),
     Endpoint("OrdersListRequest", "GET", AccountTpl(<<Lit("orders")>>), {}),
     Endpoint("OrderGetRequest", "GET", AccountTpl(<<Lit("orders"), Ph("order_id")>>), {}),
     Endpoint("OrderCancelRequest", "DELETE", AccountTpl(<<Lit("orders"), Ph("order_id")>>), {}),
     Endpoint("TradesRequest", "GET", AccountTpl(<<Lit("trades")>>),
              {QueryTpl("start", TRUE), QueryTpl("end", TRUE)}),
     Endpoint("TransactionsRequest", "GET", AccountTpl(<<Lit("transactions")>>),
              {QueryTpl("start", TRUE), QueryTpl("end", TRUE), QueryTpl("limit", TRUE)}),
     Endpoint("AssetInfoRequest", "GET", AssetTpl(<< >>), {}),
     Endpoint("AssetParamsRequest", "GET", AssetTpl(<<Lit("params")>>),
              {QueryTpl("account_id", TRUE)}),
     Endpoint("AssetScheduleRequest", "GET", AssetTpl(<<Lit("schedule")>>), {}),
     Endpoint("AssetOptionsRequest", "GET", AssetTpl(<<Lit("options")>>), {}),
     Endpoint("AssetsListRequest", "GET", <<Lit("v1"), Lit("assets")>>, {}),
     Endpoint("ExchangesListRequest", "GET", <<Lit("v1"), Lit("exchanges")>>, {}),
     Endpoint("SessionDetailsRequest", "POST", <<Lit("v1"), Lit("sessions"), Lit("details")>>, {}) >>

Schemas == {Endpoints[i].schema : i \in 1..Len(Endpoints)}

(* the slots of a structured request that end up in a path; Absent is None *)
Slots == <<"symbol", "account_id", "order_id", "timeframe">>
Absent == Lit("")

(* the fields the request models declare, and those without a default *)
model_fields(schema) ==
  CASE schema \in {"QuoteRequest", "AssetInfoRequest", "AssetScheduleRequest",
                   "AssetOptionsRequest"} -> {"symbol"}
    [] schema = "OrderbookRequest" -> {"symbol", "depth"}
    [] schema = "BarsRequest" -> {"symbol", "timeframe", "start", "end"}
    [] schema \in {"AccountRequest", "OrdersListRequest"} -> {"account_id"}
    [] schema = "TradesRequest" -> {"account_id", "start", "end"}
    [] schema = "TransactionsRequest" -> {"account_id", "start", "end", "limit"}
    [] schema \in {"OrderGetRequest", "OrderCancelRequest"} -> {"account_id", "order_id"}
    [] schema = "AssetParamsRequest" -> {"symbol", "account_id"}
    [] OTHER -> {}

is_required(schema, field) ==
  /\ field \in model_fields(schema)
  /\ field \notin {"depth", "start", "end", "limit"}
  /\ ~(schema = "AssetParamsRequest" /\ field = "account_id")

(* _by_schema: a later entry of the same schema replaces an earlier one *)
get_definition(schema) ==
  Endpoints[CHOOSE i \in 1..Len(Endpoints) :
              /\ Endpoints[i].schema = schema
              /\ \A k \in (i + 1)..Len(Endpoints) : Endpoints[k].schema # schema]

extract_placeholders(path) == {path[i].txt : i \in {j \in 1..Len(path) : path[j].ph}}

required_slots(schema) ==
  IF schema \notin Schemas THEN {}
  ELSE extract_placeholders(get_definition(schema).path)
         \cup {t.field : t \in {u \in get_definition(schema).params : ~u.optional}}

(* getattr(schema_obj, field, None) *)
FieldOf(obj, field) ==
  IF field \in DOMAIN obj.f /\ field \in model_fields(obj.schema) THEN obj.f[field] ELSE Absent

(* _substitute: every placeholder of the template replaced by str(value);  *)
(* a value of None raises                                                  *)
substitute(tpl, obj) ==
  [ok |-> \A i \in 1..Len(tpl) : tpl[i].ph => FieldOf(obj, tpl[i].txt) # Absent,
   path |-> [i \in 1..Len(tpl) |-> IF tpl[i].ph THEN FieldOf(obj, tpl[i].txt) ELSE tpl[i]]]

(* _template_value: the field's value, or _MISSING when it is None, for an  *)
(* optional and for a required template alike                              *)
template_value(tpl, obj) == FieldOf(obj, tpl.field)

(* the query parameters resolve emits: those whose value is not _MISSING *)
resolve_params(obj) ==
  {t.field : t \in {u \in get_definition(obj.schema).params : template_value(u, obj) # Absent}}

resolve(obj) ==
  IF obj.schema \notin Schemas
  THEN [ok |-> FALSE, method |-> "", path |-> NoPath, params |-> {}]
  ELSE Only({ [ok |-> sub.ok, method |-> get_definition(obj.schema).method,
               path |-> IF sub.ok THEN sub.path ELSE NoPath,
               params |-> IF sub.ok THEN resolve_params(obj) ELSE {}]
              : sub \in {substitute(get_definition(obj.schema).path, obj)} })

(* _template_to_regex and fullmatch: a placeholder stands for one path     *)
(* segment, literal text for itself                                        *)
template_matches(tpl, path) ==
  /\ Len(tpl) = Len(path)
  /\ \A i \in 1..Len(tpl) : IF tpl[i].ph THEN path[i].txt # "" ELSE path[i] = tpl[i]

classify_path(path) ==
  IF \E i \in 1..Len(Endpoints) : template_matches(Endpoints[i].path, path)
  THEN Endpoints[CHOOSE i \in 1..Len(Endpoints) :
                   /\ template_matches(Endpoints[i].path, path)
                   /\ \A k \in 1..(i - 1) : ~template_matches(Endpoints[k].path, path)].schema
  ELSE ""

(* ============================ registry extractor ======================== *)
(* What the extractor's regular expressions and resolvers find in a        *)
(* question: the schemas one of whose synonyms (keywords) occurs in it, the *)
(* resolved symbol, an account id, an order id, cancel wording, and a       *)
(* schedule or params cue.  Absent is None.                                 *)
Question(syn, kw, sym, acc, order_id, cancel, cue) ==
  [syn |-> syn, kw |-> kw, sym |-> sym, acc |-> acc, order_id |-> order_id,
   cancel |-> cancel, cue |-> cue]

ExtractCtx(symbol, account_id, order_id) ==
  [symbol |-> symbol, account_id |-> account_id, order_id |-> order_id]

HasLit(path, txt) == \E i \in 1..Len(path) : ~path[i].ph /\ path[i].txt = txt
(* "/txt/" occurs in the template: the literal is followed by a segment *)
HasDir(path, txt) == \E i \in 1..(Len(path) - 1) : ~path[i].ph /\ path[i].txt = txt

(* SymbolResolver.resolve: the context's symbol first, then the question's *)
resolve_symbol(q, ctx) == IF ctx.symbol # Absent THEN ctx.symbol ELSE q.sym

intent_score(it, q, ctx) ==
  2 * Count(it.schema \in q.syn)
  + Count(it.schema \in q.kw)
  + Count(/\ \/ "symbol" \in extract_placeholders(it.path)
             \/ HasDir(it.path, "instruments")
             \/ HasDir(it.path, "assets")
          /\ resolve_symbol(q, ctx) # Absent)
  + Count(/\ "account_id" \in extract_placeholders(it.path) \/ HasDir(it.path, "accounts")
          /\ q.acc # Absent \/ ctx.account_id # Absent)
  + 2 * Count(q.cancel /\ Upper(it.method) = "DELETE")
  + 2 * Count(/\ HasDir(it.path, "orders")
              /\ "order_id" \in extract_placeholders(it.path)
              /\ q.order_id # Absent)
  + Count(HasLit(it.path, "schedule") /\ q.cue = "schedule")
  + Count(HasLit(it.path, "params") /\ q.cue = "params")

(* the first declared intent with the highest positive score, "" for None *)
match_intent(q, ctx) ==
  IF \A i \in 1..Len(Endpoints) : intent_score(Endpoints[i], q, ctx) = 0
  THEN ""
  ELSE Endpoints[CHOOSE i \in 1..Len(Endpoints) :
                   /\ \A k \in 1..(i - 1) :
                        intent_score(Endpoints[k], q, ctx) < intent_score(Endpoints[i], q, ctx)
                   /\ \A k \in (i + 1)..Len(Endpoints) :
                        intent_score(Endpoints[k], q, ctx) <= intent_score(Endpoints[i], q, ctx)
                ].schema

(* the constructor arguments for the fields of the matched schema; the     *)
(* timeframe is always given (the default "D" without a cue), start, end    *)
(* and limit only when the context or a date phrase supplies them           *)
slot_kwargs(schema, sym, acc, order_id) ==
  LET given == { f \in model_fields(schema) :
                   \/ f = "symbol" /\ sym # Absent
                   \/ f = "account_id" /\ ("account_id" \in required_slots(schema) \/ acc # Absent)
                   \/ f = "order_id" /\ ("order_id" \in required_slots(schema) \/ order_id # Absent)
                   \/ f = "timeframe" }
  IN [f \in given |->
        CASE f = "symbol" -> sym
          [] f = "account_id" -> IF acc # Absent THEN acc ELSE Ph("account_id")
          [] f = "order_id" -> IF order_id # Absent THEN order_id ELSE Ph("order_id")
          [] OTHER -> Lit("D")]

NoKwargs == [f \in {} |-> Absent]

(* building the request model: a missing required field fails the build    *)
(* and the required fields not given are reported; schema "" is None       *)
construct(schema, kwargs) ==
  IF \E f \in model_fields(schema) : is_required(schema, f) /\ f \notin DOMAIN kwargs
  THEN [schema |-> "", f |-> NoKwargs,
        missing |-> SelectSeq(Slots, LAMBDA f : /\ is_required(schema, f)
                                               /\ f \notin DOMAIN kwargs)]
  ELSE [schema |-> schema, f |-> kwargs, missing |-> << >>]

(* extract_structured: (instance, []) or (None, missing) *)
extract_structured(q, ctx) ==
  IF match_intent(q, ctx) = ""
  THEN [schema |-> "", f |-> NoKwargs, missing |-> << >>]
  ELSE construct(match_intent(q, ctx),
                 slot_kwargs(match_intent(q, ctx), resolve_symbol(q, ctx),
                             IF ctx.account_id # Absent THEN ctx.account_id ELSE q.acc,
                             IF ctx.order_id # Absent THEN ctx.order_id ELSE q.order_id))

(* ------------------- the registry and the extractor alone --------------- *)
NoQ == Question({}, {}, Absent, Absent, Absent, FALSE, "")
(* the questions tried: "какие у меня заявки" (the orders-list synonym and   *)
(* nothing else), "котировка SBER@MISX", "котировка" (no instrument),        *)
(* "статус заявки" with an account id and no order id, "отмени заявку       *)
(* ORD1", "параметры SBER@MISX", and a text that matches nothing            *)
Questions ==
  { NoQ,
    [NoQ EXCEPT !.syn = {"OrdersListRequest"}],
    [NoQ EXCEPT !.syn = {"QuoteRequest"}, !.sym = Sym("SBER", "MISX")],
    [NoQ EXCEPT !.syn = {"QuoteRequest"}],
    [NoQ EXCEPT !.syn = {"OrderGetRequest"}, !.acc = Lit("A1")],
    [NoQ EXCEPT !.cancel = TRUE, !.order_id = Lit("ORD1")],
    [NoQ EXCEPT !.kw = {"AssetParamsRequest"}, !.sym = Sym("SBER", "MISX"), !.cue = "params"] }

ExtractCtxs == {ExtractCtx(Absent, Absent, Absent), ExtractCtx(Absent, Lit("A1"), Absent),
                ExtractCtx(Sym("AAPL", "XNYS"), Lit("A2"), Lit("ORD2"))}

Extract(q, ctx) ==
  /\ calls < MaxRegistryCalls
  /\ last' = [kind |-> "extract", q |-> q, ctx |-> ctx, res |-> extract_structured(q, ctx)]
  /\ calls' = calls + 1
  /\ UNCHANGED <<now, bucket, cache_store, idempotency_store, audit_buf, policy, threads, serial,
                 accepted, cached_at, advances>>

(* a structured request of the schema with the given slot values *)
Request(schema, sym, acc, order_id, timeframe) ==
  [schema |-> schema,
   f |-> [f \in model_fields(schema) |->
            CASE f = "symbol" -> sym
              [] f = "account_id" -> acc
              [] f = "order_id" -> order_id
              [] f = "timeframe" -> timeframe
              [] f = "depth" -> Lit("10")
              [] OTHER -> Absent]]

RoundTrip(obj) ==
  /\ calls < MaxRegistryCalls
  /\ \E r \in {resolve(obj)} :
       last' = [kind |-> "roundtrip", obj |-> obj, resolved |-> r,
                classified |-> IF r.ok THEN classify_path(r.path) ELSE ""]
  /\ calls' = calls + 1
  /\ UNCHANGED <<now, bucket, cache_store, idempotency_store, audit_buf, policy, threads, serial,
                 accepted, cached_at, advances>>

NextRegistry ==
  \/ \E q \in Questions, ctx \in ExtractCtxs : Extract(q, ctx)
  \/ \E schema \in Schemas, sym \in {Sym("SBER", "MISX"), Sym("AAPL", "XNYS")},
        acc \in {Lit("A1"), Absent}, order_id \in {Lit("ORD1")},
        timeframe \in {Lit("D"), Absent} :
      RoundTrip(Request(schema, sym, acc, order_id, timeframe))

SpecRegistry == Init /\ [][NextRegistry]_vars

(* the required fields of the schema that neither the question nor the     *)
(* context supplies                                                        *)
Unfilled(schema, q, ctx) ==
  { f \in model_fields(schema) \cap {"symbol", "account_id", "order_id"} :
      /\ is_required(schema, f)
      /\ CASE f = "symbol" -> q.sym = Absent /\ ctx.symbol = Absent
            [] f = "account_id" -> q.acc = Absent /\ ctx.account_id = Absent
            [] OTHER -> q.order_id = Absent /\ ctx.order_id = Absent }

(* C19: when a required field of the winning intent can be filled from     *)
(* neither the text nor the context, extract_structured returns no request *)
(* and names exactly the unfilled fields; a request it does return holds   *)
(* no made-up value.                                                       *)
C19_Claim ==
  (last.kind = "extract" /\ match_intent(last.q, last.ctx) # "")
  => /\ Unfilled(match_intent(last.q, last.ctx), last.q, last.ctx) # {}
          => /\ last.res.schema = ""
             /\ {last.res.missing[i] : i \in 1..Len(last.res.missing)}
                  = Unfilled(match_intent(last.q, last.ctx), last.q, last.ctx)
     /\ \A f \in DOMAIN last.res.f : ~last.res.f[f].ph

(* C20: a structured request with all required fields that resolves is     *)
(* classified, from its resolved path, as the intent it was built for.     *)
C20_Claim ==
  (last.kind = "roundtrip" /\ last.resolved.ok) => last.classified = last.obj.schema

(* --------------------------- PLAN to EXTRACT ---------------------------- *)
(* what the extractor sees of a text; execute_graph passes it no context *)
QuestionOf(text) == [NoQ EXCEPT !.syn = text.syn, !.sym = text.sym]
NoExtractCtx == ExtractCtx(Absent, Absent, Absent)
Extracted(text) == extract_structured(QuestionOf(text), NoExtractCtx)
InTrace(stage) == \E i \in 1..Len(last.result.trace) : last.result.trace[i] = stage

(* C17: a text without a METHOD /path directive goes on from PLAN to        *)
(* EXTRACT, and ends as NeedsDisambiguation only when the extractor reports *)
(* missing fields or matches nothing; a text the extractor resolves fully   *)
(* reaches PLACEHOLDER_FILL.                                                *)
C17_Claim ==
  (LastGraph /\ ~last.text.directive)
  => /\ InTrace("extract")
     /\ Extracted(last.text).schema # "" => (Outcome # "disambiguation" /\ InTrace("placeholders"))

(* --------------------------- resolution errors -------------------------- *)
(* C21: resolve raises whenever a slot of required_slots is None on the    *)
(* request, in the path and in the query alike; an absent optional query   *)
(* placeholder is left out silently; a path that resolve returns holds no  *)
(* placeholder.                                                            *)
C21_Claim ==
  last.kind = "roundtrip"
  => /\ (\E f \in required_slots(last.obj.schema) : FieldOf(last.obj, f) = Absent)
          => ~last.resolved.ok
     /\ last.resolved.ok
          => /\ \A i \in 1..Len(last.resolved.path) : ~last.resolved.path[i].ph
             /\ \A t \in get_definition(last.obj.schema).params :
                  (t.optional /\ FieldOf(last.obj, t.field) = Absent)
                    => t.field \notin last.resolved.params

(* ===================== EXECUTE on either backend ======================== *)
(* "API_REQUEST: GET /v1/instruments/SBER@MISX" *)
TxtInstrument == Text("GET", <<Lit("v1"), Lit("instruments"), Sym("SBER", "MISX")>>,
                      "", "", 0, NoSym)
(* "API_REQUEST: GET /v1/exchanges" *)
TxtExchanges == Text("GET", <<Lit("v1"), Lit("exchanges")>>, "", "", 0, NoSym)

BackendTexts == {TxtQuote, TxtInstrument, TxtExchanges, TxtBuy, TxtCancel}
BackendCtxs == {Ctx(FALSE, "A1", TRUE), Ctx(TRUE, "A1", TRUE)}
BackendScripts == {<<Http(200)>>, <<Http(503)>>}
Backends == {"http", "mcp"}

BackendCall(text, ctx, script, backend) ==
  /\ calls < MaxBackendCalls
  /\ GraphRun(text, ctx, script, backend)

NextBackend ==
  \E text \in BackendTexts, ctx \in BackendCtxs, script \in BackendScripts,
     backend \in Backends : BackendCall(text, ctx, script, backend)

SpecBackend == Init /\ [][NextBackend]_vars

(* C22: execute_graph never raises; whatever the backend does in EXECUTE,  *)
(* the call ends with a result object.                                     *)
C22_Claim == LastGraph => Outcome # "raised"

(* ------------------------ fingerprint and body -------------------------- *)
(* C23: the fingerprint covers the body: a write whose method and path      *)
(* equal those of a write accepted within the TTL, but whose body differs   *)
(* from every such write, is not an idempotency conflict and is forwarded.  *)
C23_Claim ==
  (ReachedExecute /\ IsWrite(last.result.method) /\ last.fpSeen
     /\ ~(last.seen /\ ~(last.at - last.seenAt > IdemTTL)))
  => (Outcome = "executed" /\ WritesSent(last.wire) >= 1)

(* ==================== concurrent callers: idempotency =================== *)
(* check_and_remember_idempotency takes no lock: a caller can be preempted *)
(* between its statements.  threads[t] holds the position of caller t and   *)
(* its locals: the key, the clock reading and the snapshot of the purge.    *)
Threads == 1..MaxThreads

IdemKeys == {generate_intent_hash("POST", P_ORDERS, ""),
             generate_intent_hash("DELETE", P_ORDER1, "")}

IdleThread == [pc |-> "idle"]

InitIdem == Constructed /\ threads = [t \in Threads |-> IdleThread]

(* now = time.time() and the snapshot list(_idempotency_store.items()) *)
IdemBegin(t, key) ==
  /\ threads[t].pc = "idle"
  /\ threads' = [threads EXCEPT ![t] =
       [pc |-> "purge", key |-> key, t0 |-> now,
        snapshot |-> idempotency_store, allowed |-> FALSE]]
  /\ calls' = calls + 1
  /\ UNCHANGED <<now, bucket, cache_store, idempotency_store, audit_buf, policy, serial,
                 accepted, cached_at, last, advances>>

(* the purge loop: pop(k, None) for every entry the snapshot shows expired *)
IdemPurge(t) ==
  /\ threads[t].pc = "purge"
  /\ LET th == threads[t]
         old == {k \in DOMAIN th.snapshot :
                   th.t0 - th.snapshot[k] > IDEMPOTENCY_TTL_SECONDS * TicksPerSec}
     IN idempotency_store' = [k \in DOMAIN idempotency_store \ old |-> idempotency_store[k]]
  /\ threads' = [threads EXCEPT ![t].pc = "test"]
  /\ UNCHANGED <<now, bucket, cache_store, audit_buf, policy, serial, accepted, cached_at,
                 last, calls, advances>>

(* if key in _idempotency_store: return False *)
IdemTest(t) ==
  /\ threads[t].pc = "test"
  /\ threads' = [threads EXCEPT ![t].pc =
                   IF threads[t].key \in DOMAIN idempotency_store THEN "done" ELSE "write"]
  /\ UNCHANGED <<now, bucket, cache_store, idempotency_store, audit_buf, policy, serial,
                 accepted, cached_at, last, calls, advances>>

(* _idempotency_store[key] = now; return True *)
IdemWrite(t) ==
  /\ threads[t].pc = "write"
  /\ idempotency_store' = (threads[t].key :> threads[t].t0) @@ idempotency_store
  /\ threads' = [threads EXCEPT ![t].pc = "done", ![t].allowed = TRUE]
  /\ UNCHANGED <<now, bucket, cache_store, audit_buf, policy, serial, accepted, cached_at,
                 last, calls, advances>>

RaceTicks == {1, IDEMPOTENCY_TTL_SECONDS * TicksPerSec + 1}

RaceTick(d) ==
  /\ advances < MaxRaceTicks
  /\ now' = now + d
  /\ advances' = advances + 1
  /\ UNCHANGED <<bucket, cache_store, idempotency_store, audit_buf, policy, serial,
                 accepted, cached_at, last, calls, threads>>

NextIdem ==
  \/ \E t \in Threads, key \in IdemKeys : IdemBegin(t, key)
  \/ \E t \in Threads : IdemPurge(t) \/ IdemTest(t) \/ IdemWrite(t)
  \/ \E d \in RaceTicks : RaceTick(d)

SpecIdem == InitIdem /\ [][NextIdem]_vars

(* C24: of the callers that ran check_and_remember_idempotency with the     *)
(* same fingerprint within the TTL of each other, at most one got True.     *)
C24_Claim ==
  \A a, b \in Threads :
    (a # b /\ threads[a].pc = "done" /\ threads[b].pc = "done"
       /\ threads[a].allowed /\ threads[b].allowed
       /\ threads[a].key = threads[b].key
       /\ threads[a].t0 <= threads[b].t0)
    => threads[b].t0 - threads[a].t0 > IDEMPOTENCY_TTL_SECONDS * TicksPerSec

(* ==================== concurrent callers: token bucket ================== *)
(* TokenBucket.consume takes no lock either.  The callers share the bucket *)
(* of one Router, full after construction or drawn down to its last token  *)
(* by earlier requests.                                                    *)
InitRace ==
  /\ Fresh
  /\ bucket \in {NewBucket(0), [NewBucket(0) EXCEPT !.tokens = 1 * TokenUnit]}
  /\ threads = [t \in Threads |-> IdleThread]

(* consume(1.0) is entered *)
ConsumeBegin(t) ==
  /\ threads[t].pc = "idle"
  /\ threads' = [threads EXCEPT ![t] = [pc |-> "refill", seen |-> 0, wait |-> 0,
                                        granted |-> FALSE]]
  /\ calls' = calls + 1
  /\ UNCHANGED <<now, bucket, cache_store, idempotency_store, audit_buf, policy, serial,
                 accepted, cached_at, last, advances>>

(* self._refill() *)
ConsumeRefill(t) ==
  /\ threads[t].pc = "refill"
  /\ bucket' = Refill(bucket, now)
  /\ threads' = [threads EXCEPT ![t].pc = "test"]
  /\ UNCHANGED <<now, cache_store, idempotency_store, audit_buf, policy, serial, accepted,
                 cached_at, last, calls, advances>>

(* if self._tokens >= amount *)
ConsumeTest(t) ==
  /\ threads[t].pc = "test"
  /\ threads' = [threads EXCEPT ![t].seen = bucket.tokens,
                                ![t].pc = IF bucket.tokens >= 1 * TokenUnit
                                          THEN "debit" ELSE "short"]
  /\ UNCHANGED <<now, bucket, cache_store, idempotency_store, audit_buf, policy, serial,
                 accepted, cached_at, last, calls, advances>>

(* self._tokens -= amount; return 0.0 *)
ConsumeDebit(t) ==
  /\ threads[t].pc = "debit"
  /\ bucket' = [bucket EXCEPT !.tokens = bucket.tokens - 1 * TokenUnit]
  /\ threads' = [threads EXCEPT ![t].pc = "done", ![t].granted = TRUE]
  /\ UNCHANGED <<now, cache_store, idempotency_store, audit_buf, policy, serial, accepted,
                 cached_at, last, calls, advances>>

(* the wait is computed and the balance taken to max(0.0, tokens - amount) *)
ConsumeShort(t) ==
  /\ threads[t].pc = "short"
  /\ bucket' = [bucket EXCEPT !.tokens = Max(0, bucket.tokens - 1 * TokenUnit)]
  /\ threads' = [threads EXCEPT
                   ![t].pc = "done",
                   ![t].wait = Max(0, IF RATE_PER_SEC > 0
                                      THEN (1 * TokenUnit - bucket.tokens) \div RATE_PER_SEC
                                      ELSE 0)]
  /\ UNCHANGED <<now, cache_store, idempotency_store, audit_buf, policy, serial, accepted,
                 cached_at, last, calls, advances>>

NextRace ==
  \/ \E t \in Threads :
       ConsumeBegin(t) \/ ConsumeRefill(t) \/ ConsumeTest(t) \/ ConsumeDebit(t)
         \/ ConsumeShort(t)
  \/ \E d \in RaceTicks : RaceTick(d)

SpecRace == InitRace /\ [][NextRace]_vars

(* C25: under concurrent consume calls the balance stays within            *)
(* [0, BURST], and while nothing is refilled no two callers are granted,   *)
(* without wait, a balance of one token that both of them saw.             *)
C25_Claim ==
  /\ 0 <= bucket.tokens /\ bucket.tokens <= BURST * TokenUnit
  /\ \A a, b \in Threads :
       (a # b /\ advances = 0 /\ threads[a].pc = "done" /\ threads[b].pc = "done"
          /\ threads[a].granted /\ threads[b].granted)
       => ~(threads[a].seen = 1 * TokenUnit /\ threads[b].seen = 1 * TokenUnit)

(* ------------------------------ stage trace ----------------------------- *)
(* the stages that ran before execute_graph returned, in pipeline order *)
StagesRun ==
  CASE Outcome = "disambiguation" /\ last.result.path = NoPath -> <<"plan">>
    [] Outcome = "disambiguation" /\ last.result.path # NoPath ->
         <<"plan", "extract", "placeholders">>
    [] Outcome \in {"blocked", "requires_confirmation", "dry_run"} ->
         <<"plan", "extract", "placeholders", "safety">>
    [] OTHER -> <<"plan", "extract", "placeholders", "safety", "execute">>

(* C26: whatever the outcome, the trace of the result holds one entry for   *)
(* each stage that ran, the safety check included, in pipeline order.       *)
C26_Claim == LastGraph => last.result.trace = StagesRun

(* ============================== audit log =============================== *)
(* list(self._buf)[-n:]: the last n records, and for n = 0 the slice [-0:]  *)
(* which is the whole list                                                  *)
recent(buf, n) ==
  IF n = 0 THEN buf
  ELSE SubSeq(buf, Len(buf) - Min(n, Len(buf)) + 1, Len(buf))

AuditDecisions == {"blocked", "needs_confirm", "executed"}
RecentSizes == 0..(AuditMaxLen + 1)

AuditLog(decision) ==
  /\ calls < MaxAuditCalls
  /\ audit_buf' = log_safety(audit_buf, now, "POST", P_ORDERS, decision, << >>)
  /\ last' = [kind |-> "log", before |-> audit_buf]
  /\ calls' = calls + 1
  /\ UNCHANGED <<now, bucket, cache_store, idempotency_store, policy, threads, serial,
                 accepted, cached_at, advances>>

AuditRecent(n) ==
  /\ calls < MaxAuditCalls
  /\ last' = [kind |-> "recent", n |-> n, out |-> recent(audit_buf, n)]
  /\ calls' = calls + 1
  /\ UNCHANGED <<now, bucket, cache_store, idempotency_store, audit_buf, policy, threads,
                 serial, accepted, cached_at, advances>>

NextAudit ==
  \/ \E decision \in AuditDecisions : AuditLog(decision)
  \/ \E n \in RecentSizes : AuditRecent(n)

SpecAudit == Init /\ [][NextAudit]_vars

(* C27: the log never holds more than its capacity; appending to a full    *)
(* log drops the oldest record; recent(n) returns at most n records, the n  *)
(* latest retained ones in append order, for every n >= 0.                  *)
C27_Claim ==
  /\ Len(audit_buf) <= AuditMaxLen
  /\ (last.kind = "log" /\ Len(last.before) = AuditMaxLen)
       => /\ Len(audit_buf) = AuditMaxLen
          /\ \A i \in 1..(AuditMaxLen - 1) : audit_buf[i] = last.before[i + 1]
  /\ last.kind = "recent"
       => /\ Len(last.out) <= last.n
          /\ Len(last.out) = Min(last.n, Len(audit_buf))
          /\ \A i \in 1..Len(last.out) :
               last.out[i] = audit_buf[Len(audit_buf) - Len(last.out) + i]

(* ----------------------- fingerprint after a failure -------------------- *)
(* C28: a write that was sent and failed (error response or exception)      *)
(* keeps its fingerprint: the identical write repeated within the TTL is    *)
(* an idempotency conflict and is not sent.                                 *)
C28_Claim ==
  (LastGraph /\ last.repeatOfFailed /\ last.at - last.prevAt < IdemTTL)
  => (Outcome = "idempotency_conflict" /\ last.wire = << >>)

(* ------------------------ writes and the cache -------------------------- *)
(* the requests of a call that ask for what is stored under cache key k *)
SentFor(wire, k) ==
  {i \in 1..Len(wire) : wire[i].method = Upper(k[1]) /\ wire[i].path = k[2]
                          /\ wire[i].params.kv = k[3]}

(* C29: a write invalidates nothing.  Every cache entry that is still live *)
(* when an execute_graph call returns is left as it was by the call, the    *)
(* writes it sent included, and no request for it went to the backend: the  *)
(* GETs of the call for it, the post-verify GET of an order creation among  *)
(* them, were answered from the cache.                                      *)
C29_Step ==
  (calls' = calls + 1 /\ last'.kind = "graph")
  => \A k \in DOMAIN cache_store :
       cache_store[k].expires_at > now'
       => /\ k \in DOMAIN cache_store'
          /\ cache_store'[k] = cache_store[k]
          /\ SentFor(last'.wire, k) = {}

C29_Theorem == [][C29_Step]_vars

(* an order creation was sent while the orders list of its account was     *)
(* cached: its post-verify GET was a cache hit and stayed off the wire      *)
C29_Witness ==
  /\ LastGraph /\ Outcome = "executed"
  /\ is_order_create(last.result.method, last.result.path)
  /\ last.ctx.account_id = "A1"
  /\ WritesSent(last.wire) = 1
  /\ last.hits >= 1
  /\ SentFor(last.wire, CacheKey("GET", P_ORDERS, NoParams)) = {}

(* identical GETs against a remote that answers with errors: a refused    *)
(* status, or an error body that uses up the retries                       *)
ErrorScripts == {<<Http(200)>>, <<Http(503)>>, <<HttpBody(200, 503)>>}

NextErrors ==
  \/ \E path \in RouterPaths, script \in ErrorScripts :
        RouterCall("GET", path, NoParams, script)
  \/ \E d \in RouterDeltas : RouterAdvance(d)

SpecErrors == InitRouter /\ [][NextErrors]_vars

(* C30: on a GET cache miss Router.execute stores whatever the backend     *)
(* returned, an error-shaped response (the last error after the retries    *)
(* are used up) included; the identical GET made before the entry expires  *)
(* (30 s or 300 s) returns that error from the cache and sends nothing.    *)
C30_Stored ==
  (LastRouter /\ Upper(last.method) = "GET" /\ last.hits = 0)
  => \E k \in {CacheKey(last.method, last.path, last.params)} :
       /\ k \in DOMAIN cache_store
       /\ cache_store[k].value = last.resp
       /\ cache_store[k].expires_at = cached_at[k] + TTLTicks(last.path)

C30_Served ==
  (LastRouter /\ Upper(last.method) = "GET" /\ last.prev.same /\ last.prev.resp.error
     /\ last.stamped /\ last.at < last.stampAt + TTLTicks(last.path))
  => /\ last.resp = last.prev.resp
     /\ last.resp.error
     /\ last.hits = 1
     /\ last.backendCalls = 0
     /\ last.wire = << >>

C30_Theorem == C30_Stored /\ C30_Served

C30_Witness ==
  /\ LastRouter /\ Upper(last.method) = "GET" /\ last.prev.same
  /\ last.prev.resp.error /\ last.prev.resp.status_code = 503
  /\ last.prev.backendCalls = 1 /\ last.prev.retries = Len(Delays)
  /\ last.hits = 1 /\ last.resp = last.prev.resp /\ last.wire = << >>
  /\ last.at = last.stampAt + TTLTicks(last.path) - 1

====
